---- MODULE Spec2Model ----
(***************************************************************************)
(* Model of plugins/processor/split/keyvalue/key_value_splitter.go:        *)
(* the KeyValueSplitter processor.  A Go string is a sequence of           *)
(* one-character strings; a protocol.Log is the sequence of its Contents,  *)
(* each a record [Key, Value].                                             *)
(***************************************************************************)
EXTENDS Integers, Sequences, FiniteSets, TLC

(* ------------------------------ bounds --------------------------------- *)
\* longest source value explored by Spec
MaxLen == 5
\* iterations explored beyond Len(source), the most a scan that returns can
\* take (a continuing iteration that shortens content removes at least one
\* character; one that does not repeats forever)
MaxRepeat == 1
\* longest record explored by SpecRecord
MaxFields == 3
\* records in one batch handed to ProcessLogs
MaxLogs == 2

(* --------------------------- characters -------------------------------- *)
TAB == "\t"
COLON == ":"
QUOTE == "\""
Alphabet == {TAB, COLON, QUOTE, "a"}

(* ----------------------- program constants ----------------------------- *)
defaultDelimiter == <<TAB>>
defaultSeparator == <<COLON>>
defaultEmptyKeyPrefix == <<"e", "m", "p", "t", "y", "_", "k", "e", "y", "_">>
defaultNoSeparatorKeyPrefix ==
    <<"n", "o", "_", "s", "e", "p", "a", "r", "a", "t", "o", "r", "_", "k", "e", "y", "_">>

(* ------------------------- string functions ---------------------------- *)
\* s[lo:hi] of Go; the caller checks InRange first (Go panics otherwise)
Slice(str, lo, hi) == SubSeq(str, lo + 1, hi)

\* the condition under which s[lo:hi] does not panic
InRange(str, lo, hi) == 0 <= lo /\ lo <= hi /\ hi <= Len(str)

\* strings.HasPrefix
HasPrefix(str, prefix) ==
    Len(str) >= Len(prefix) /\ SubSeq(str, 1, Len(prefix)) = prefix

\* strings.HasSuffix
HasSuffix(str, suffix) ==
    Len(str) >= Len(suffix)
    /\ SubSeq(str, Len(str) - Len(suffix) + 1, Len(str)) = suffix

\* does substr occur in str at the 0-based offset i
MatchAt(str, substr, i) ==
    i + Len(substr) <= Len(str) /\ SubSeq(str, i + 1, i + Len(substr)) = substr

\* strings.Index: 0-based offset of the first occurrence, -1 when there is none
Index(str, substr) ==
    IF \E i \in 0..(Len(str) - Len(substr)) : MatchAt(str, substr, i)
    THEN CHOOSE i \in 0..(Len(str) - Len(substr)) :
             /\ MatchAt(str, substr, i)
             /\ \A j \in 0..(i - 1) : ~MatchAt(str, substr, j)
    ELSE -1

Digit(d) == <<"0", "1", "2", "3", "4", "5", "6", "7", "8", "9">>[d + 1]

\* strconv.Itoa for the non-negative counters
RECURSIVE Itoa(_)
Itoa(n) == IF n < 10 THEN <<Digit(n)>> ELSE Itoa(n \div 10) \o <<Digit(n % 10)>>

(* --------------------------- configuration ----------------------------- *)
\* KeyValueSplitter.Init: empty option strings get their defaults
InitConfig(raw) ==
    [raw EXCEPT
        !.Delimiter = IF Len(raw.Delimiter) = 0 THEN defaultDelimiter ELSE raw.Delimiter,
        !.Separator = IF Len(raw.Separator) = 0 THEN defaultSeparator ELSE raw.Separator,
        !.EmptyKeyPrefix =
            IF Len(raw.EmptyKeyPrefix) = 0 THEN defaultEmptyKeyPrefix ELSE raw.EmptyKeyPrefix,
        !.NoSeparatorKeyPrefix =
            IF Len(raw.NoSeparatorKeyPrefix) = 0 THEN defaultNoSeparatorKeyPrefix
            ELSE raw.NoSeparatorKeyPrefix]

\* newKeyValueSplitter: the record the factory returns; fields it does not
\* set have Go's zero values
newKeyValueSplitter ==
    [SourceKey |-> <<>>,
     Delimiter |-> defaultDelimiter,
     Separator |-> defaultSeparator,
     KeepSource |-> TRUE,
     EmptyKeyPrefix |-> defaultEmptyKeyPrefix,
     NoSeparatorKeyPrefix |-> defaultNoSeparatorKeyPrefix,
     QuoteFlag |-> FALSE,
     Quote |-> <<>>,
     DiscardWhenSeparatorNotFound |-> FALSE,
     ErrIfSourceKeyNotFound |-> TRUE,
     ErrIfSeparatorNotFound |-> TRUE,
     ErrIfKeyIsEmpty |-> TRUE]

\* the factory's record with the options the host's configuration binds over
\* it, drawn from the given sets, before Init
BoundConfigs(sourceKeys, delimiters, separators, prefixes, quoting, errFlags) ==
    {[newKeyValueSplitter EXCEPT
          !.SourceKey = k,
          !.Delimiter = d,
          !.Separator = p,
          !.KeepSource = keep,
          !.EmptyKeyPrefix = IF x = <<>> THEN <<>> ELSE defaultEmptyKeyPrefix,
          !.NoSeparatorKeyPrefix = IF x = <<>> THEN <<>> ELSE defaultNoSeparatorKeyPrefix,
          !.QuoteFlag = q.QuoteFlag,
          !.Quote = q.Quote,
          !.DiscardWhenSeparatorNotFound = discard,
          !.ErrIfSourceKeyNotFound = f.ErrIfSourceKeyNotFound,
          !.ErrIfSeparatorNotFound = f.ErrIfSeparatorNotFound,
          !.ErrIfKeyIsEmpty = f.ErrIfKeyIsEmpty] :
        k \in sourceKeys, d \in delimiters, p \in separators, x \in prefixes,
        q \in quoting, f \in errFlags, keep \in BOOLEAN, discard \in BOOLEAN}

(* ------------------------------ getValue ------------------------------- *)
\* KeyValueSplitter.getValue: strip one pair of surrounding quotes
getValue(s, value) ==
    IF /\ s.QuoteFlag /\ Len(s.Quote) > 0
       /\ Len(value) >= 2 * Len(s.Quote)
       /\ HasPrefix(value, s.Quote) /\ HasSuffix(value, s.Quote)
    THEN Slice(value, Len(s.Quote), Len(value) - Len(s.Quote))
    ELSE value

(* --------------------------- concatQuotePair --------------------------- *)
\* KeyValueSplitter.concatQuotePair: the pair and boundary after the quote
\* lookahead; panic is TRUE when a slice expression is out of range
concatQuotePair(s, pair, content, dIdx) ==
    LET same == [pair |-> pair, dIdx |-> dIdx, panic |-> FALSE]
        fail == [pair |-> pair, dIdx |-> dIdx, panic |-> TRUE]
    IN
    IF s.QuoteFlag /\ Len(s.Quote) > 0 /\ ~HasSuffix(pair, s.Quote)
    THEN IF ~InRange(content, dIdx + 1, Len(content))
         THEN fail
         ELSE LET lastQuote == Index(Slice(content, dIdx + 1, Len(content)), s.Quote)
                  moved == lastQuote + Len(s.Separator \o s.Quote)
              IN
              IF Index(pair, s.Separator \o s.Quote) > 0 \/ HasPrefix(pair, s.Quote)
              THEN IF moved > 0
                   THEN IF InRange(content, 0, dIdx + moved)
                        THEN [pair |-> Slice(content, 0, dIdx + moved),
                              dIdx |-> dIdx + moved, panic |-> FALSE]
                        ELSE fail
                   ELSE same
              ELSE same
    ELSE same

(* ------------------------ one pair to one field ------------------------ *)
\* a variant of splitPair that numbers both kinds of synthesized key from
\* one shared counter
splitPairSharedCounter(s, pair, emptyKeyIndex, noSeparatorKeyIndex) ==
    LET pos == Index(pair, s.Separator) IN
    IF pos = -1
    THEN IF ~s.DiscardWhenSeparatorNotFound
         THEN [fields |-> <<[Key |-> s.NoSeparatorKeyPrefix
                                       \o Itoa(emptyKeyIndex + noSeparatorKeyIndex),
                             Value |-> getValue(s, pair)]>>,
               emptyKeyIndex |-> emptyKeyIndex,
               noSeparatorKeyIndex |-> noSeparatorKeyIndex + 1,
               alarms |-> IF s.ErrIfSeparatorNotFound THEN 1 ELSE 0]
         ELSE [fields |-> <<>>,
               emptyKeyIndex |-> emptyKeyIndex,
               noSeparatorKeyIndex |-> noSeparatorKeyIndex,
               alarms |-> IF s.ErrIfSeparatorNotFound THEN 1 ELSE 0]
    ELSE LET key == Slice(pair, 0, pos)
             value == getValue(s, Slice(pair, pos + Len(s.Separator), Len(pair)))
         IN
         IF Len(key) = 0
         THEN [fields |-> <<[Key |-> s.EmptyKeyPrefix
                                       \o Itoa(emptyKeyIndex + noSeparatorKeyIndex),
                             Value |-> value]>>,
               emptyKeyIndex |-> emptyKeyIndex + 1,
               noSeparatorKeyIndex |-> noSeparatorKeyIndex,
               alarms |-> IF s.ErrIfKeyIsEmpty THEN 1 ELSE 0]
         ELSE [fields |-> <<[Key |-> key, Value |-> value]>>,
               emptyKeyIndex |-> emptyKeyIndex,
               noSeparatorKeyIndex |-> noSeparatorKeyIndex,
               alarms |-> 0]

\* splitKeyValue, lines 113-137: the field (if any) appended for one pair,
\* the two counters afterwards and the number of warnings logged
splitPair(s, pair, emptyKeyIndex, noSeparatorKeyIndex) ==
    LET pos == Index(pair, s.Separator) IN
    IF pos = -1
    THEN IF ~s.DiscardWhenSeparatorNotFound
         THEN [fields |-> <<[Key |-> s.NoSeparatorKeyPrefix \o Itoa(noSeparatorKeyIndex),
                             Value |-> getValue(s, pair)]>>,
               emptyKeyIndex |-> emptyKeyIndex,
               noSeparatorKeyIndex |-> noSeparatorKeyIndex + 1,
               alarms |-> IF s.ErrIfSeparatorNotFound THEN 1 ELSE 0]
         ELSE [fields |-> <<>>,
               emptyKeyIndex |-> emptyKeyIndex,
               noSeparatorKeyIndex |-> noSeparatorKeyIndex,
               alarms |-> IF s.ErrIfSeparatorNotFound THEN 1 ELSE 0]
    ELSE LET key == Slice(pair, 0, pos)
             value == getValue(s, Slice(pair, pos + Len(s.Separator), Len(pair)))
         IN
         IF Len(key) = 0
         THEN [fields |-> <<[Key |-> s.EmptyKeyPrefix \o Itoa(emptyKeyIndex),
                             Value |-> value]>>,
               emptyKeyIndex |-> emptyKeyIndex + 1,
               noSeparatorKeyIndex |-> noSeparatorKeyIndex,
               alarms |-> IF s.ErrIfKeyIsEmpty THEN 1 ELSE 0]
         ELSE [fields |-> <<[Key |-> key, Value |-> value]>>,
               emptyKeyIndex |-> emptyKeyIndex,
               noSeparatorKeyIndex |-> noSeparatorKeyIndex,
               alarms |-> 0]

(* ------------------------------- inputs -------------------------------- *)
\* every string over Alphabet of length at most n
Strings(n) == UNION {[1..k -> Alphabet] : k \in 0..n}

msg == <<"m", "s", "g">>
sourceField(value) == [Key |-> msg, Value |-> value]
otherField == [Key |-> <<"k">>, Value |-> <<"v">>]

\* Spec: every source value up to MaxLen in the first field of a two-field
\* record, and the empty record; multi-character delimiter and separator
\* the prefixes left empty or preset, and the quoting options: the factory's
\* (off, no quote), the flag set without a quote, and quoting with '"'
Prefixes == {<<>>, defaultEmptyKeyPrefix}
Quoting == {[QuoteFlag |-> FALSE, Quote |-> <<>>],
            [QuoteFlag |-> TRUE, Quote |-> <<>>],
            [QuoteFlag |-> TRUE, Quote |-> <<QUOTE>>]}

\* the three warning flags: every combination, and all on or all off
ErrFlags == [ErrIfSourceKeyNotFound : BOOLEAN,
             ErrIfSeparatorNotFound : BOOLEAN,
             ErrIfKeyIsEmpty : BOOLEAN]
ErrFlagsAllOrNone ==
    {f \in ErrFlags : f.ErrIfSourceKeyNotFound = f.ErrIfSeparatorNotFound
                      /\ f.ErrIfSeparatorNotFound = f.ErrIfKeyIsEmpty}

ConfigsSplit ==
    BoundConfigs({<<>>}, {<<>>, defaultDelimiter, <<TAB, TAB>>},
                 {<<>>, defaultSeparator, <<COLON, COLON>>}, Prefixes, Quoting,
                 ErrFlagsAllOrNone)
LogsSplit == {<<sourceField(c), otherField>> : c \in Strings(MaxLen)} \cup {<<>>}

\* a few source values: empty, one pair, three pairs with synthesized keys
RecordValues == {<<>>, <<"a", COLON, "a">>, <<COLON, TAB, "a", TAB, COLON, "a">>}
\* Spec: the records after the first of a batch
LogsFollow == {<<sourceField(c), otherField>> : c \in RecordValues}

\* SpecRecord: every record of up to MaxFields fields over RecordValues
RecordFields == {otherField} \cup {sourceField(c) : c \in RecordValues}
ConfigsRecord ==
    BoundConfigs({<<>>, msg}, {<<>>, defaultDelimiter}, {<<>>, defaultSeparator},
                 Prefixes, Quoting, ErrFlags)
LogsRecord == UNION {[1..n -> RecordFields] : n \in 0..MaxFields}

(* ------------------------------- state --------------------------------- *)
VARIABLES
    s,                    \* the KeyValueSplitter, after Init
    log,                  \* log.Contents of the record being processed
    orig,                 \* log.Contents as the record was handed to processLog
    hasKey,               \* processLog's hasKey
    source,               \* content.Value as passed to splitKeyValue
    content,              \* splitKeyValue's content: the text still to scan
    dIdx,                 \* splitKeyValue's dIdx
    pair,                 \* the pair of the last iteration, after concatQuotePair
    emptyKeyIndex,
    noSeparatorKeyIndex,
    iter,                 \* iterations of the scan loop run for this record
    alarms,               \* warnings sent to the logger for this record
    processed,            \* records of the batch that ProcessLogs has finished
    pc                    \* "start", "loop", "done" or "panic"

vars == <<s, log, orig, hasKey, source, content, dIdx, pair,
          emptyKeyIndex, noSeparatorKeyIndex, iter, alarms, processed, pc>>

\* the locals of processLog and splitKeyValue before either has run
Fresh ==
    /\ hasKey = FALSE
    /\ source = <<>>
    /\ content = <<>>
    /\ dIdx = 0
    /\ pair = <<>>
    /\ emptyKeyIndex = 0
    /\ noSeparatorKeyIndex = 0
    /\ iter = 0
    /\ alarms = 0

InitWith(configs, logs) ==
    /\ s \in {InitConfig(raw) : raw \in configs}
    /\ log \in logs
    /\ orig = log
    /\ Fresh
    /\ processed = 0
    /\ pc = "start"

(* ------------------------------ processLog ----------------------------- *)
\* does the range loop of processLog stop at the 0-based index idx
IsSource(cfg, contents, idx) ==
    Len(cfg.SourceKey) = 0 \/ cfg.SourceKey = contents[idx + 1].Key

\* the index at which the range loop of processLog breaks, -1 if it never does
SourceIndex(cfg, contents) ==
    IF \E idx \in 0..(Len(contents) - 1) : IsSource(cfg, contents, idx)
    THEN CHOOSE idx \in 0..(Len(contents) - 1) :
             /\ IsSource(cfg, contents, idx)
             /\ \A j \in 0..(idx - 1) : ~IsSource(cfg, contents, j)
    ELSE -1

\* a variant of RemoveAt that keeps only the fields before idx
RemoveAtTruncating(contents, idx) == SubSeq(contents, 1, idx)

\* append(log.Contents[:idx], log.Contents[idx+1:]...)
RemoveAt(contents, idx) ==
    SubSeq(contents, 1, idx) \o SubSeq(contents, idx + 2, Len(contents))

\* processLog up to and including its call of splitKeyValue reaching the
\* scan loop (lines 83-102), or to its end when no field matches
ProcessLog ==
    /\ pc = "start"
    /\ LET idx == SourceIndex(s, log) IN
       IF idx = -1
       THEN /\ hasKey' = FALSE
            /\ alarms' = IF s.ErrIfSourceKeyNotFound THEN 1 ELSE 0
            /\ pc' = "done"
            /\ UNCHANGED <<log, source, content>>
       ELSE /\ hasKey' = TRUE
            /\ log' = IF ~s.KeepSource THEN RemoveAt(log, idx) ELSE log
            /\ source' = log[idx + 1].Value
            /\ content' = log[idx + 1].Value
            /\ alarms' = 0
            /\ pc' = "loop"
    /\ emptyKeyIndex' = 0
    /\ noSeparatorKeyIndex' = 0
    /\ dIdx' = 0
    /\ iter' = 0
    /\ UNCHANGED <<s, orig, pair, processed>>

(* ---------------------------- splitKeyValue ---------------------------- *)
\* the delimiter search at the top of the loop body
delimiterIndex(cfg, str) == Index(str, cfg.Delimiter)

\* the pair cut at the delimiter, before the quote lookahead (lines 105-110)
candidatePair(cfg, str) ==
    IF delimiterIndex(cfg, str) = -1 THEN str
    ELSE Slice(str, 0, delimiterIndex(cfg, str))

\* the text left after the boundary d (lines 142-144)
advance(cfg, str, d) ==
    IF d + Len(cfg.Delimiter) <= Len(str)
    THEN Slice(str, d + Len(cfg.Delimiter), Len(str))
    ELSE str

\* one iteration of the scan loop (lines 103-145)
Iterate ==
    /\ pc = "loop"
    /\ dIdx < Len(content)
    /\ iter < Len(source) + MaxRepeat
    /\ iter' = iter + 1
    /\ LET q == concatQuotePair(s, candidatePair(s, content), content,
                                delimiterIndex(s, content))
           r == splitPair(s, q.pair, emptyKeyIndex, noSeparatorKeyIndex)
       IN
       IF q.panic
       THEN /\ pc' = "panic"
            /\ dIdx' = delimiterIndex(s, content)
            /\ UNCHANGED <<log, content, pair, emptyKeyIndex, noSeparatorKeyIndex, alarms>>
       ELSE /\ pair' = q.pair
            /\ dIdx' = q.dIdx
            /\ log' = log \o r.fields
            /\ emptyKeyIndex' = r.emptyKeyIndex
            /\ noSeparatorKeyIndex' = r.noSeparatorKeyIndex
            /\ alarms' = alarms + r.alarms
            /\ IF q.dIdx = -1
               THEN pc' = "done" /\ content' = content
               ELSE pc' = "loop" /\ content' = advance(s, content, q.dIdx)
    /\ UNCHANGED <<s, orig, hasKey, source, processed>>

\* the loop condition fails: splitKeyValue and processLog return
LoopExit ==
    /\ pc = "loop"
    /\ ~(dIdx < Len(content))
    /\ pc' = "done"
    /\ UNCHANGED <<s, log, orig, hasKey, source, content, dIdx, pair,
                   emptyKeyIndex, noSeparatorKeyIndex, iter, alarms, processed>>

(* ----------------------------- ProcessLogs ----------------------------- *)
\* ProcessLogs moves on to the next record of the batch
NextLogWith(logs) ==
    /\ pc = "done"
    /\ processed + 1 < MaxLogs
    /\ processed' = processed + 1
    /\ log' \in logs
    /\ orig' = log'
    /\ hasKey' = FALSE
    /\ source' = <<>>
    /\ content' = <<>>
    /\ dIdx' = 0
    /\ pair' = <<>>
    /\ emptyKeyIndex' = 0
    /\ noSeparatorKeyIndex' = 0
    /\ iter' = 0
    /\ alarms' = 0
    /\ pc' = "start"
    /\ UNCHANGED s

NextLog == NextLogWith(LogsFollow)
NextLogRecord == NextLogWith(LogsRecord)

Init == InitWith(ConfigsSplit, LogsSplit)
InitRecord == InitWith(ConfigsRecord, LogsRecord)

Next == ProcessLog \/ Iterate \/ LoopExit \/ NextLog
NextRecord == ProcessLog \/ Iterate \/ LoopExit \/ NextLogRecord

Spec == Init /\ [][Next]_vars
SpecRecord == InitRecord /\ [][NextRecord]_vars

(* ----------------------- definitions for the claims -------------------- *)
\* the fields appended to the record by splitKeyValue so far
derived ==
    SubSeq(log, Len(orig) - (IF hasKey /\ ~s.KeepSource THEN 1 ELSE 0) + 1, Len(log))

\* the step is one iteration of the scan loop
IterateStep == pc = "loop" /\ iter' = iter + 1

\* number of occurrences of substr in str, overlapping ones included
Occurrences(str, substr) ==
    Cardinality({i \in 0..(Len(str) - Len(substr)) : MatchAt(str, substr, i)})

\* str cut at every delimiter, left to right
RECURSIVE Pairs(_, _)
Pairs(str, delimiter) ==
    IF Index(str, delimiter) = -1 THEN <<str>>
    ELSE <<Slice(str, 0, Index(str, delimiter))>>
         \o Pairs(Slice(str, Index(str, delimiter) + Len(delimiter), Len(str)), delimiter)

\* one field per pair, in order, the counters threaded through
RECURSIVE FieldsOf(_, _, _, _)
FieldsOf(cfg, pairs, e, n) ==
    IF pairs = <<>> THEN <<>>
    ELSE LET r == splitPair(cfg, Head(pairs), e, n) IN
         r.fields \o FieldsOf(cfg, Tail(pairs), r.emptyKeyIndex, r.noSeparatorKeyIndex)

\* C1: with quoting disabled and discardWhenSeparatorNotFound=false, a source
\* value of n >= 1 non-empty pairs joined by the delimiter yields exactly one
\* field per pair, in left-to-right order
C1_OneFieldPerPair ==
    (/\ pc = "done" /\ hasKey
     /\ ~s.QuoteFlag /\ ~s.DiscardWhenSeparatorNotFound
     /\ \A i \in 1..Len(Pairs(source, s.Delimiter)) :
            Len(Pairs(source, s.Delimiter)[i]) > 0)
    => derived = FieldsOf(s, Pairs(source, s.Delimiter), 0, 0)

\* C2: processing never aborts: no slice of content is taken out of range
C2_NeverPanics == pc # "panic"

\* C3: a non-empty source value with a separator and no delimiter yields
\* exactly one field, quoting enabled or not
C3_ExactlyOneField ==
    (/\ pc = "done" /\ hasKey
     /\ Len(source) > 0
     /\ Index(source, s.Separator) # -1
     /\ Index(source, s.Delimiter) = -1)
    => Len(derived) = 1

\* source is key + separator + quote + body + quote with a plain non-empty key
\* and a body holding exactly one delimiter and no quote
IsQuotedPair(cfg, str) ==
    LET pos == Index(str, cfg.Separator)
        key == Slice(str, 0, pos)
        rest == Slice(str, pos + 1, Len(str))
        body == Slice(rest, 1, Len(rest) - 1)
    IN /\ Len(cfg.Delimiter) = 1 /\ Len(cfg.Separator) = 1 /\ Len(cfg.Quote) = 1
       /\ pos > 0
       /\ Index(key, cfg.Delimiter) = -1 /\ Index(key, cfg.Quote) = -1
       /\ Len(rest) >= 2
       /\ HasPrefix(rest, cfg.Quote) /\ HasSuffix(rest, cfg.Quote)
       /\ Occurrences(body, cfg.Delimiter) = 1
       /\ Index(body, cfg.Quote) = -1

QuotedKey(cfg, str) == Slice(str, 0, Index(str, cfg.Separator))
QuotedBody(cfg, str) == Slice(str, Index(str, cfg.Separator) + 2, Len(str) - 1)

\* C4: with quoting enabled, key:"body" whose body holds one delimiter is
\* emitted as the single field (key, body)
C4_QuotedDelimiterKept ==
    (pc = "done" /\ hasKey /\ s.QuoteFlag /\ IsQuotedPair(s, source))
    => derived = <<[Key |-> QuotedKey(s, source), Value |-> QuotedBody(s, source)]>>

\* C5: a source value ending with the delimiter yields a final empty pair:
\* with discardWhenSeparatorNotFound=false the last field appended is
\* (noSeparatorKeyPrefix + index, "")
C5_TrailingDelimiterPair ==
    (/\ pc = "done" /\ hasKey
     /\ ~s.DiscardWhenSeparatorNotFound
     /\ HasSuffix(source, s.Delimiter))
    => /\ Len(derived) >= 1
       /\ noSeparatorKeyIndex >= 1
       /\ derived[Len(derived)] =
              [Key |-> s.NoSeparatorKeyPrefix \o Itoa(noSeparatorKeyIndex - 1),
               Value |-> <<>>]

\* the field is one processLog takes as the source
MatchesSourceKey(field) == Len(s.SourceKey) = 0 \/ field.Key = s.SourceKey

\* the original record without its first matching field
WithoutFirstMatch(contents) ==
    LET first == CHOOSE i \in 1..Len(contents) :
                     /\ MatchesSourceKey(contents[i])
                     /\ \A j \in 1..(i - 1) : ~MatchesSourceKey(contents[j])
    IN [j \in 1..(Len(contents) - 1) |->
            IF j < first THEN contents[j] ELSE contents[j + 1]]

\* the fields the record must still start with
ExpectedBase ==
    IF (\E i \in 1..Len(orig) : MatchesSourceKey(orig[i])) /\ ~s.KeepSource
    THEN WithoutFirstMatch(orig)
    ELSE orig

\* C6: processLog only removes the first matching source field (when
\* keepSource=false) and appends: the record always starts with the original
\* fields, in order and unchanged, it is unchanged when nothing matches, and
\* it never loses more than one field
C6_FrameEffect ==
    pc # "start" =>
        /\ Len(log) >= Len(ExpectedBase)
        /\ SubSeq(log, 1, Len(ExpectedBase)) = ExpectedBase
        /\ Len(log) >= Len(orig) - 1
        /\ (~(\E i \in 1..Len(orig) : MatchesSourceKey(orig[i])) => log = orig)

\* C6 witness: the source field was removed from the front of a record with
\* other fields behind it, and fields were appended
C6_Witness ==
    /\ pc = "done" /\ hasKey /\ ~s.KeepSource
    /\ Len(orig) >= 2
    /\ MatchesSourceKey(orig[1])
    /\ Len(derived) >= 2

HasEmptyKeyPrefix(field) == HasPrefix(field.Key, s.EmptyKeyPrefix)
HasNoSeparatorKeyPrefix(field) == HasPrefix(field.Key, s.NoSeparatorKeyPrefix)

\* C7: among the fields appended for one source value, the Nth key made from
\* emptyKeyPrefix carries N-1 and the Nth key made from noSeparatorKeyPrefix
\* carries N-1, each counter counting only its own keys and starting at 0
\* for every record
C7_CountersNumberKeys ==
    (pc \in {"loop", "done", "panic"} /\ hasKey) =>
        LET E == SelectSeq(derived, HasEmptyKeyPrefix)
            N == SelectSeq(derived, HasNoSeparatorKeyPrefix)
        IN /\ Len(E) = emptyKeyIndex
           /\ \A j \in 1..Len(E) : E[j].Key = s.EmptyKeyPrefix \o Itoa(j - 1)
           /\ Len(N) = noSeparatorKeyIndex
           /\ \A j \in 1..Len(N) : N[j].Key = s.NoSeparatorKeyPrefix \o Itoa(j - 1)

\* C7 witness: the second record of a batch got two empty-key fields and one
\* no-separator field
C7_Witness ==
    /\ pc = "done" /\ processed = 1
    /\ emptyKeyIndex = 2
    /\ noSeparatorKeyIndex = 1

\* C8: every iteration of the scan loop either ends the loop or strictly
\* shortens the remaining content
C8_IterationShortens ==
    [][(IterateStep /\ pc' = "loop" /\ dIdx' < Len(content'))
          => Len(content') < Len(content)]_vars

\* C9: with quoting enabled, a candidate pair that does not end with the quote
\* and contains separator + quote at any position, or starts with the quote,
\* is extended: the boundary moves forward past the delimiter and the pair is
\* re-extracted up to it
C9_QuoteExtensionApplied ==
    [][(/\ IterateStep /\ pc' # "panic"
        /\ s.QuoteFlag
        /\ delimiterIndex(s, content) # -1
        /\ ~HasSuffix(candidatePair(s, content), s.Quote)
        /\ \/ Index(candidatePair(s, content), s.Separator \o s.Quote) >= 0
           \/ HasPrefix(candidatePair(s, content), s.Quote)
        /\ Index(Slice(content, delimiterIndex(s, content) + Len(s.Delimiter),
                       Len(content)), s.Quote) # -1)
          => /\ dIdx' > delimiterIndex(s, content)
             /\ pair' = Slice(content, 0, dIdx')]_vars

\* C10: with quoting enabled, when no quote occurs after the delimiter just
\* matched, the pair and the boundary stay as the delimiter cut them
C10_UnclosedQuoteUnchanged ==
    [][(/\ IterateStep /\ pc' # "panic"
        /\ s.QuoteFlag
        /\ delimiterIndex(s, content) # -1
        /\ Index(Slice(content, delimiterIndex(s, content) + Len(s.Delimiter),
                       Len(content)), s.Quote) = -1)
          => /\ pair' = candidatePair(s, content)
             /\ dIdx' = delimiterIndex(s, content)]_vars

====
